---- MODULE Spec2Model ----
(***************************************************************************)
(* Model of the process supervisor `Command`                               *)
(* (src/src/models/command/index.ts).                                      *)
(*                                                                         *)
(* One Command instance is modelled together with its environment: the     *)
(* ChildProcess objects returned by spawn() (each an event emitter with    *)
(* its listeners), the external streams and a logical clock.  Every        *)
(* public method is one action; every event the runtime delivers (exit,    *)
(* error, stream data) is one action that runs the registered handlers.    *)
(*                                                                         *)
(* Spec is the whole machine of one Command.  The other specifications     *)
(* are its parts, each with every step that touches its part of the state: *)
(* SpecLifecycle (the status machine with the listeners of the emitters),  *)
(* SpecStreams (the stream bridge with the history), SpecClock (the        *)
(* timestamps), SpecDump (the history dump in the consumer's hands),       *)
(* SpecStatus (the status accessor), SpecParameters (the parameter         *)
(* resolver over bounded templates and answers) and SpecConstruction (the  *)
(* constructor over valid and invalid arguments).  SpecPair is the machine *)
(* of two Command instances side by side.                                  *)
(***************************************************************************)
EXTENDS Integers, Sequences, FiniteSets, TLC

\* ------------------------------------------------------------- bounds
\* Number of ChildProcess objects spawn() may return over the lifetime.
MaxRuns == 2
\* Length up to which the history is explored.
MaxHist == 2
\* Last value of the logical clock.
MaxClock == 2
\* Number of ChildProcess objects the two Commands of the two-supervisor
\* machine may get from spawn() together.
MaxPairRuns == 2
\* Number of history entries the two Commands may hold together.
MaxPairHist == 1
\* Length up to which parameter templates are explored.
MaxTemplate == 3
\* Length up to which answers are explored.
MaxAnswer == 2

\* ------------------------------------------------------------- values
\* CommandStatus
NOT_STARTED == "NOT_STARTED"
RUNNING == "RUNNING"
FINISHED == "FINISHED"
ERROR == "ERROR"
STOPPED == "STOPPED"
KILLED == "KILLED"
CommandStatus == {NOT_STARTED, RUNNING, FINISHED, ERROR, STOPPED, KILLED}

\* HistoryEntryType
TypeIN == "IN"
TypeOUT == "OUT"
TypeERR == "ERR"

\* `null` of `exitCode: number | null` and of the `code` argument of 'exit':
\* a value outside the exit codes 0..255.
NullCode == 256
\* `undefined` of `pid` and `startDate` (pids and clock values are >= 1).
Undefined == 0
\* `null` of `childProcess: ChildProcess | null`.
NoProcess == 0
\* `null` of the `signal` argument of 'exit'.
NoSignal == "null"

\* Exit codes and signals an 'exit' event may carry.  The runtime reports a
\* code or a signal; the handler takes any pair, and every pair is drawn.
ExitCodes == {0, 1, NullCode}
Signals == {NoSignal, "SIGKILL", "SIGTERM", "SIGINT"}
\* Data chunks travelling on the streams.
Chunks == {"a", "b"}
\* Event names of the ChildProcess emitter used by the consumer.
EventNames == {"exit", "error"}
\* The characters of templates and answers: the marker, the escape, and two
\* more, one of which makes a replacement pattern after a `$`.
Alphabet == {"$", "\\", "a", "&"}
\* The strings of at most n characters.
Strings(n) == UNION {[1..k -> Alphabet] : k \in 0..n}

\* A string whose characters matter is a sequence of one-character strings.
\* A CommandParameter is a literal string or an input object
\* { parameter, answer }: `object` tells which (typeof param == 'string').
Literal(s) == [object |-> FALSE, parameter |-> s, answer |-> <<>>]
InputObject(template, answer) ==
    [object |-> TRUE, parameter |-> template, answer |-> answer]
\* Parameter lists of a descriptor, and those the consumer may inject with
\* setParameters: none, a literal, a literal around an input object.
ParameterLists ==
    {<<>>,
     <<Literal(<<"a">>)>>,
     <<Literal(<<"a">>), InputObject(<<"a", "$">>, <<"a">>), Literal(<<"$">>)>>}

\* The `command` field of a descriptor object that has none.
NoCommand == "undefined"
\* Descriptor objects handed to the constructor: with a command, with an
\* empty one, without one.
Descriptors ==
    {[command |-> c, parameters |-> ps] :
        c \in {"ls", "", NoCommand}, ps \in ParameterLists}
\* Stream bundles handed to the constructor: `defined` is FALSE for an absent
\* bundle (undefined); the other fields tell which stream handles an object
\* has.
StreamBundles ==
    {b \in [defined : BOOLEAN, readInput : BOOLEAN, writeOutput : BOOLEAN,
            writeError : BOOLEAN] :
        ~b.defined => ~(b.readInput \/ b.writeOutput \/ b.writeError)}
\* The arguments of a construction that succeeds.
ValidArgs ==
    [descriptor |-> [command |-> "ls", parameters |-> <<>>],
     streams |-> [defined |-> TRUE, readInput |-> TRUE, writeOutput |-> TRUE,
                  writeError |-> TRUE]]

\* The two Command instances of the two-supervisor machine.
Instances == {1, 2}

VARIABLES
    status,        \* this.status
    pid,           \* this.pid
    exitCode,      \* this.exitCode
    startDate,     \* this.startDate
    history,       \* this.history
    childProcess,  \* this.childProcess: index into procs, or NoProcess
    parameters,    \* this.parameters
    procs,         \* the ChildProcess objects spawn() has returned
    callbacks,     \* event names with consumer listeners on this.childProcess
    readInputListeners, \* 'data' listeners this Command put on streams.readInput
    outSink,       \* chunks written to streams.writeOutput
    errSink,       \* chunks written to streams.writeError
    stdinSink,     \* chunks written to this.childProcess.stdin
    delivered,     \* stream events emitted since the first spawn, as <<type, chunk>>
    now,           \* the clock read by `new Date()`
    last,          \* the operation or event of the last step
    args,          \* the arguments `new Command(descriptor, streams)` is called with
    instance,      \* what the constructor call produced
    resolvedParameters, \* the argument vector the last run() passed to spawn()
    dump,          \* the array the consumer got from getHistoryDump()
    returned,      \* the value the last isRunning() returned
    cmds           \* two Command instances side by side

vars == <<status, pid, exitCode, startDate, history, childProcess, parameters,
          procs, callbacks, readInputListeners, outSink, errSink, stdinSink,
          delivered, now, last, args, instance, resolvedParameters, dump,
          returned, cmds>>

Terminal == {FINISHED, ERROR, STOPPED, KILLED}

\* The record kept of the last step: the operation or event; for stop() and
\* kill() the signal passed to kill() of a process that still runs and that
\* process; for an 'exit' event the emitting process and the (code, signal)
\* it reports.
Step(op) ==
    [op |-> op, code |-> NullCode, signal |-> NoSignal, target |-> NoProcess]

\* ---------------------------------------------------------- constructor
\* commandDescriptorSchema: `command` is required and non-empty.
commandDescriptorSchema(descriptor) ==
    descriptor.command \notin {NoCommand, ""}

\* runCommandArgsSchema: an object with the three stream handles.
runCommandArgsSchema(streams) ==
    streams.defined /\ streams.readInput /\ streams.writeOutput /\ streams.writeError

\* What `new Command(descriptor, streams)` produces: the instance, or the
\* error thrown.  The branch of the stream bundle evaluates
\* streams.toString() for the log record before the ValidationError is
\* built; on an absent bundle that property access throws a TypeError.
Constructed(descriptor, streams) ==
    IF ~commandDescriptorSchema(descriptor) THEN "ValidationError"
    ELSE IF ~runCommandArgsSchema(streams)
         THEN IF streams.defined THEN "ValidationError" ELSE "TypeError"
    ELSE "Command"

\* What the consumer holds of getHistoryDump(): nothing yet, or the returned
\* array; `seen` is what the consumer last knew it to hold (the contents at
\* the call, or after a change of its own).
NoDump == [taken |-> FALSE, array |-> "", seen |-> <<>>]

\* The fields of a Command as the constructor leaves them (one record per
\* instance; `procs` are the ChildProcess objects spawn() returned to it).
NewCommand ==
    [status |-> NOT_STARTED, pid |-> Undefined, exitCode |-> NullCode,
     history |-> <<>>, childProcess |-> NoProcess, procs |-> <<>>,
     parameters |-> <<>>]

\* The fields as the constructor assigns them, and the environment at that
\* time: no process, silent streams, the clock at 1.
Fresh ==
    /\ status = NOT_STARTED
    /\ pid = Undefined
    /\ exitCode = NullCode
    /\ startDate = Undefined
    /\ history = <<>>
    /\ childProcess = NoProcess
    /\ procs = <<>>
    /\ callbacks = {}
    /\ readInputListeners = 0
    /\ outSink = <<>>
    /\ errSink = <<>>
    /\ stdinSink = <<>>
    /\ delivered = <<>>
    /\ now = 1
    /\ resolvedParameters = <<>>
    /\ dump = NoDump
    /\ returned = FALSE
    /\ cmds = [c \in Instances |-> NewCommand]

\* The instance of the one-Command machine, constructed from ValidArgs.
Init ==
    /\ Fresh
    /\ args = ValidArgs
    /\ parameters = args.descriptor.parameters
    /\ instance = "Command"
    /\ last = Step("new")

\* Before the constructor is called, with any arguments.
InitConstruction ==
    /\ Fresh
    /\ args \in [descriptor : Descriptors, streams : StreamBundles]
    /\ parameters = <<>>
    /\ instance = "none"
    /\ last = Step("")

\* new Command(descriptor, streams): throws, or assigns the fields.
construct ==
    /\ instance = "none"
    /\ instance' = Constructed(args.descriptor, args.streams)
    /\ parameters' = IF Constructed(args.descriptor, args.streams) = "Command"
                     THEN args.descriptor.parameters
                     ELSE parameters
    /\ last' = Step("new")
    /\ UNCHANGED <<status, pid, exitCode, startDate, history, childProcess,
                   procs, callbacks, readInputListeners, outSink, errSink,
                   stdinSink, delivered, now>>
    /\ UNCHANGED <<args, resolvedParameters, dump, returned, cmds>>

\* ------------------------------------------------------------- helpers
\* A ChildProcess as spawn() returns it.  `state`: "alive" (running),
\* "failed" (the launch failed, the 'error' event is still to come),
\* "exited" ('exit' emitted; buffered stdio data may still arrive), "dead"
\* (the failed launch has been reported).
\* `own`: the event names on which the Command's observers are registered.
\* `stdoutData`/`stderrData`: the Command's 'data' listeners on the streams.
NewProcess(ok, n) ==
    [state |-> IF ok THEN "alive" ELSE "failed",
     pid |-> IF ok THEN n ELSE Undefined,
     own |-> {},
     stdoutData |-> 0,
     stderrData |-> 0]

\* eventsListener(): this.childProcess.on('exit', ...); .on('error', ...)
eventsListener(proc) ==
    [proc EXCEPT !.own = @ \cup {"exit", "error"}]

\* registerIoEvent(): the two listeners on the process's stdout and stderr
\* (the third one, on streams.readInput, is counted in readInputListeners).
registerIoEvent(proc) ==
    [proc EXCEPT !.stdoutData = @ + 1, !.stderrData = @ + 1]

\* A history that grows at the front (unshift in place of push).
HistoryUnshift(h, data, date, type) ==
    <<[data |-> data, date |-> date, type |-> type]>> \o h

\* this.history.push({data, date: new Date(), type})
HistoryPush(h, data, date, type) ==
    Append(h, [data |-> data, date |-> date, type |-> type])

\* k pushes of the same chunk, one per registered listener.
RECURSIVE HistoryPushTimes(_, _, _, _, _)
HistoryPushTimes(h, data, date, type, k) ==
    IF k = 0 THEN h
    ELSE HistoryPushTimes(HistoryPush(h, data, date, type), data, date, type, k - 1)

\* k appends of x to a sequence.
RECURSIVE AppendTimes(_, _, _)
AppendTimes(s, x, k) ==
    IF k = 0 THEN s ELSE AppendTimes(Append(s, x), x, k - 1)

\* An 'exit' handler that looks at the code before the signal.
ExitStatusCodeFirst(code, signal) ==
    IF (code # NullCode /\ code # 0) /\ code > 0 THEN ERROR
    ELSE CASE signal = "SIGKILL" -> KILLED
           [] signal = "SIGTERM" -> STOPPED
           [] OTHER -> FINISHED

\* The switch of the 'exit' handler: the signal first, then the code.
ExitStatus(code, signal) ==
    CASE signal = "SIGKILL" -> KILLED
      [] signal = "SIGTERM" -> STOPPED
      [] OTHER -> IF (code # NullCode /\ code # 0) /\ code > 0
                  THEN ERROR
                  ELSE FINISHED

\* A run() that sets the status before it calls spawn().
StatusBeforeSpawn(outcome, s) == RUNNING

\* The status after run(): RUNNING once spawn() has returned a ChildProcess,
\* untouched when spawn() threw.
StatusAfterSpawn(outcome, s) ==
    IF outcome = "throw" THEN s ELSE RUNNING

\* The status the 'error' handler leaves.
StatusAfterError(s) == STOPPED

\* An 'error' handler with the assignment `this.exitCode = code` left in.
ExitCodeSetByError(c) == 1

\* The exit code the 'error' handler leaves: the assignment is commented out.
ExitCodeAfterError(c) == c

\* A stop()/kill() that records the outcome itself instead of waiting for
\* the 'exit' event.
StatusSetBySignal(s, signal) ==
    IF signal = "SIGTERM" THEN STOPPED ELSE KILLED

\* The status after stop()/kill() returned: the methods only signal.
StatusAfterSignal(s, signal) == s

\* A regular expression that matches any `$`, escaped or not.
replaceRuleAnyDollar(s) ==
    IF \E i \in 1..Len(s) : s[i] = "$"
    THEN CHOOSE i \in 1..Len(s) :
            /\ s[i] = "$"
            /\ \A j \in 1..(i - 1) : s[j] # "$"
    ELSE 0

\* replaceRule = /(?<!\\)\$/ applied to s: the position of the first `$` that
\* no backslash precedes, 0 when there is no match.
replaceRule(s) ==
    LET matches == {i \in 1..Len(s) : s[i] = "$" /\ (i = 1 \/ s[i - 1] # "\\")}
    IN  IF matches = {} THEN 0
        ELSE CHOOSE i \in matches : \A j \in matches : i <= j

\* The text String.prototype.replace puts in place of a match when the
\* replacement is the string r: `$$` stands for a `$`, `$&` for the matched
\* text, "$`" for the text before the match, `$'` for the text after it
\* (the expression has no groups, so `$1`.. and `$<` are taken as written),
\* every other character for itself.
RECURSIVE GetSubstitution(_, _, _, _)
GetSubstitution(r, matched, before, after) ==
    IF r = <<>> THEN <<>>
    ELSE IF r[1] = "$" /\ Len(r) >= 2 /\ r[2] \in {"$", "&", "`", "'"}
         THEN (CASE r[2] = "$" -> <<"$">>
                 [] r[2] = "&" -> matched
                 [] r[2] = "`" -> before
                 [] r[2] = "'" -> after)
              \o GetSubstitution(SubSeq(r, 3, Len(r)), matched, before, after)
         ELSE <<r[1]>> \o GetSubstitution(Tail(r), matched, before, after)

\* s.replace(replaceRule, r) for an s that matches: the expression is not
\* global, only the first match is replaced.
Replace(s, r) ==
    LET i == replaceRule(s)
        before == SubSeq(s, 1, i - 1)
        after == SubSeq(s, i + 1, Len(s))
    IN  before \o GetSubstitution(r, <<"$">>, before, after) \o after

\* resolveCommandParameters(params): params.map(...).  The answers are
\* strings (an absent answer is outside the inputs drawn).
resolveCommandParameters(params) ==
    [k \in 1..Len(params) |->
        IF ~params[k].object THEN params[k].parameter
        ELSE IF replaceRule(params[k].parameter) # 0
             THEN Replace(params[k].parameter, params[k].answer)
             ELSE params[k].answer]

\* The event names removeAllEventListeners(event?) clears on the emitter:
\* the given one, or all of eventNames() when none is given ("").
Removed(event) ==
    IF event = "" THEN EventNames ELSE {event}

\* --------------------------------------------------------- operations
\* run(): spawn() returns a running process ("ok"), returns a ChildProcess
\* whose launch failed and that reports it later with 'error' ("fail"), or
\* throws ("throw").
Run(outcome) ==
        /\ instance = "Command"
        /\ outcome # "throw" => Len(procs) < MaxRuns
        /\ resolvedParameters' = resolveCommandParameters(parameters)
        /\ startDate' = now
        /\ status' = StatusAfterSpawn(outcome, status)
        /\ IF outcome = "throw"
           THEN /\ UNCHANGED <<pid, childProcess, procs, callbacks, readInputListeners>>
                /\ last' = Step("run:ProcessError")
           ELSE LET n == Len(procs) + 1
                    proc == registerIoEvent(eventsListener(NewProcess(outcome = "ok", n)))
                IN  /\ procs' = Append(procs, proc)
                    /\ childProcess' = n
                    /\ callbacks' = {}
                    /\ pid' = proc.pid
                    /\ readInputListeners' = readInputListeners + 1
                    /\ last' = Step("run")
        /\ UNCHANGED <<exitCode, history, parameters, outSink, errSink,
                       stdinSink, delivered, now>>
        /\ UNCHANGED <<args, instance, dump, returned, cmds>>

run ==
    \E outcome \in {"ok", "fail", "throw"} : Run(outcome)

\* stop() and kill(): this.childProcess?.kill(signal); the signal is sent
\* when there is a process and it still runs.
Signal(op, signal) ==
    /\ instance = "Command"
    /\ status' = StatusAfterSignal(status, signal)
    /\ last' = IF childProcess # NoProcess /\ procs[childProcess].state = "alive"
               THEN [Step(op) EXCEPT !.signal = signal, !.target = childProcess]
               ELSE Step(op)
    /\ UNCHANGED <<pid, exitCode, startDate, history, childProcess, parameters,
                   procs, callbacks, readInputListeners, outSink, errSink,
                   stdinSink, delivered, now>>
    /\ UNCHANGED <<args, instance, resolvedParameters, dump, returned, cmds>>

stop == Signal("stop", "SIGTERM")

kill == Signal("kill", "SIGKILL")

\* setParameters(parameters)
setParameters ==
    \E ps \in ParameterLists :
        /\ instance = "Command"
        /\ parameters' = ps
        /\ last' = Step("setParameters")
        /\ UNCHANGED <<status, pid, exitCode, startDate, history, childProcess,
                       procs, callbacks, readInputListeners, outSink, errSink,
                       stdinSink, delivered, now>>
        /\ UNCHANGED <<args, instance, resolvedParameters, dump, returned, cmds>>

\* onEvent(event, listener): this.childProcess?.addListener(event, listener)
onEvent ==
    \E e \in EventNames :
        /\ instance = "Command"
        /\ callbacks' = IF childProcess = NoProcess THEN callbacks
                        ELSE callbacks \cup {e}
        /\ last' = Step("onEvent")
        /\ UNCHANGED <<status, pid, exitCode, startDate, history, childProcess,
                       parameters, procs, readInputListeners, outSink, errSink,
                       stdinSink, delivered, now>>
        /\ UNCHANGED <<args, instance, resolvedParameters, dump, returned, cmds>>

\* removeAllEventListeners(event?): this.childProcess.removeAllListeners(...)
\* drops every listener of the name(s), the Command's own observers included.
removeAllEventListeners ==
    \E e \in EventNames \cup {""} :
        /\ instance = "Command"
        /\ IF childProcess = NoProcess
           THEN UNCHANGED <<procs, callbacks>>
           ELSE /\ procs' = [procs EXCEPT ![childProcess].own = @ \ Removed(e)]
                /\ callbacks' = callbacks \ Removed(e)
        /\ last' = Step("removeAllEventListeners")
        /\ UNCHANGED <<status, pid, exitCode, startDate, history, childProcess,
                       parameters, readInputListeners, outSink, errSink,
                       stdinSink, delivered, now>>
        /\ UNCHANGED <<args, instance, resolvedParameters, dump, returned, cmds>>

\* getHistoryDump(): `return this.history`.  What comes back is the array
\* object of the field itself, not a copy of it.
ReturnedArray(h) == "this.history"

\* The contents of an array getHistoryDump() returned, read now: those of
\* this.history when it is that object, else those the consumer last saw.
DumpContents ==
    IF dump.array = "this.history" THEN history ELSE dump.seen

\* getHistoryDump()
getHistoryDump ==
    /\ instance = "Command"
    /\ dump' = [taken |-> TRUE, array |-> ReturnedArray(history), seen |-> history]
    /\ last' = Step("getHistoryDump")
    /\ UNCHANGED <<status, pid, exitCode, startDate, history, childProcess,
                   parameters, procs, callbacks, readInputListeners, outSink,
                   errSink, stdinSink, delivered, now>>
    /\ UNCHANGED <<args, instance, resolvedParameters, returned, cmds>>

\* The consumer changes the array it got from getHistoryDump():
\* dump.push(entry).  When the array is this.history, the field gains the
\* entry with it.
dumpPush ==
    \E d \in Chunks :
        /\ dump.taken
        /\ Len(DumpContents) < MaxHist
        /\ dump' = [dump EXCEPT !.seen = HistoryPush(DumpContents, d, now, TypeIN)]
        /\ history' = IF dump.array = "this.history"
                      THEN HistoryPush(history, d, now, TypeIN)
                      ELSE history
        /\ last' = Step("dump.push")
        /\ UNCHANGED <<status, pid, exitCode, startDate, childProcess,
                       parameters, procs, callbacks, readInputListeners, outSink,
                       errSink, stdinSink, delivered, now>>
        /\ UNCHANGED <<args, instance, resolvedParameters, returned, cmds>>

\* An isRunning() that reports every started command as running.
IsStarted(s) == s # NOT_STARTED

\* isRunning(): return this.status == CommandStatus.RUNNING
IsRunning(s) == s = RUNNING

isRunning ==
    /\ instance = "Command"
    /\ returned' = IsRunning(status)
    /\ last' = Step("isRunning")
    /\ UNCHANGED <<status, pid, exitCode, startDate, history, childProcess,
                   parameters, procs, callbacks, readInputListeners, outSink,
                   errSink, stdinSink, delivered, now>>
    /\ UNCHANGED <<args, instance, resolvedParameters, dump, cmds>>

\* ------------------------------------------------ two Command instances
\* The same methods and handlers, on the fields of instance c of `cmds`.
\* The streams of the two are outside this machine; of a data event only
\* the push to the history is kept.
Other(c) == 3 - c

\* The inputs drawn in the two-supervisor machine: the parameter list
\* injected (the parameters play no part in what follows), the event names
\* cleared (all of them), the (code, signal) pairs of 'exit' (normal and
\* failing exit, kill), the data chunks.
PairParameterLists == {<<>>}
PairEventNames == {""}
PairExits == {<<0, NoSignal>>, <<1, NoSignal>>, <<NullCode, "SIGKILL">>}
PairChunks == {"a"}

\* The pid of the n-th process of instance c: no two processes share one.
PairPid(c, n) == 2 * (n - 1) + c

\* ChildProcess objects spawned so far, and history entries held, by both.
Spawned == Len(cmds[1].procs) + Len(cmds[2].procs)
Logged == Len(cmds[1].history) + Len(cmds[2].history)

\* Handlers that write the fields of one fixed instance, as handlers reading
\* a module-level reference instead of `this` would.
ThisFirst(c) == 1

\* The instance whose fields the handlers registered by c's run() write: the
\* arrow functions of eventsListener and registerIoEvent capture `this`.
This(c) == c

\* A step of instance c (a method call on it or an event of one of its
\* processes): the one-Command machine stands still.
PairStep(c) ==
    /\ last' = [Step("pair") EXCEPT !.target = c]
    /\ UNCHANGED <<status, pid, exitCode, startDate, history, childProcess,
                   parameters, procs, callbacks, readInputListeners, outSink,
                   errSink, stdinSink, delivered, now>>
    /\ UNCHANGED <<args, instance, resolvedParameters, dump, returned>>

PairRun(c, outcome) ==
    LET cmd == cmds[c]
        n == Len(cmd.procs) + 1
        proc == [registerIoEvent(eventsListener(NewProcess(outcome = "ok", n)))
                    EXCEPT !.pid = IF outcome = "ok" THEN PairPid(c, n) ELSE Undefined]
    IN  /\ outcome # "throw" => Spawned < MaxPairRuns
        /\ cmds' = [cmds EXCEPT ![c] =
                IF outcome = "throw"
                THEN [cmd EXCEPT !.status = StatusAfterSpawn(outcome, cmd.status)]
                ELSE [cmd EXCEPT !.status = StatusAfterSpawn(outcome, cmd.status),
                                 !.procs = Append(@, proc),
                                 !.childProcess = n,
                                 !.pid = proc.pid]]
        /\ PairStep(c)

pairRun ==
    \E c \in Instances, outcome \in {"ok", "fail", "throw"} : PairRun(c, outcome)

PairSignal(c, signal) ==
    /\ cmds' = [cmds EXCEPT ![c].status = StatusAfterSignal(@, signal)]
    /\ PairStep(c)

pairStop ==
    \E c \in Instances : PairSignal(c, "SIGTERM")

pairKill ==
    \E c \in Instances : PairSignal(c, "SIGKILL")

pairSetParameters ==
    \E c \in Instances, ps \in PairParameterLists :
        /\ cmds' = [cmds EXCEPT ![c].parameters = ps]
        /\ PairStep(c)

pairRemoveAllEventListeners ==
    \E c \in Instances, e \in PairEventNames :
        /\ cmds' = IF cmds[c].childProcess = NoProcess THEN cmds
                   ELSE [cmds EXCEPT ![c].procs[cmds[c].childProcess].own =
                                        @ \ Removed(e)]
        /\ PairStep(c)

PairExit(c, p, code, signal) ==
    LET emitted == [cmds EXCEPT ![c].procs[p].state = "exited"]
    IN  /\ cmds[c].procs[p].state = "alive"
        /\ cmds' = IF "exit" \in cmds[c].procs[p].own
                   THEN [emitted EXCEPT ![This(c)].status = ExitStatus(code, signal),
                                        ![This(c)].exitCode = code]
                   ELSE emitted
        /\ PairStep(c)

pairExitEvent ==
    \E c \in Instances, exit \in PairExits :
        \E p \in 1..Len(cmds[c].procs) : PairExit(c, p, exit[1], exit[2])

PairError(c, p) ==
    LET emitted == [cmds EXCEPT ![c].procs[p].state =
                                    IF @ = "failed" THEN "dead" ELSE @]
    IN  /\ cmds[c].procs[p].state \in {"alive", "failed"}
        /\ cmds' = IF "error" \in cmds[c].procs[p].own
                   THEN [emitted EXCEPT ![This(c)].status = StatusAfterError(@),
                                        ![This(c)].exitCode = ExitCodeAfterError(@)]
                   ELSE emitted
        /\ PairStep(c)

pairErrorEvent ==
    \E c \in Instances : \E p \in 1..Len(cmds[c].procs) : PairError(c, p)

\* stdout (type OUT) or stderr (type ERR) of process p of instance c emits
\* 'data'.
PairData(c, p, d, type) ==
    LET listeners == IF type = TypeOUT THEN cmds[c].procs[p].stdoutData
                     ELSE cmds[c].procs[p].stderrData
    IN  /\ cmds[c].procs[p].state \in {"alive", "exited"}
        /\ Logged + listeners <= MaxPairHist
        /\ cmds' = [cmds EXCEPT ![This(c)].history =
                                    HistoryPushTimes(@, d, now, type, listeners)]
        /\ PairStep(c)

pairOutputData ==
    \E c \in Instances, d \in PairChunks, type \in {TypeOUT, TypeERR} :
        \E p \in 1..Len(cmds[c].procs) : PairData(c, p, d, type)

\* ------------------------------------------------------------- events
\* Process p emits 'exit' (code, signal); the handler of eventsListener runs
\* if it is still registered.
ExitEvent(p, code, signal) ==
        /\ procs[p].state = "alive"
        /\ procs' = [procs EXCEPT ![p].state = "exited"]
        /\ IF "exit" \in procs[p].own
           THEN /\ status' = ExitStatus(code, signal)
                /\ exitCode' = code
           ELSE UNCHANGED <<status, exitCode>>
        /\ last' = [Step("exit") EXCEPT !.code = code, !.signal = signal,
                                        !.target = p]
        /\ UNCHANGED <<pid, startDate, history, childProcess, parameters,
                       callbacks, readInputListeners, outSink, errSink,
                       stdinSink, delivered, now>>
        /\ UNCHANGED <<args, instance, resolvedParameters, dump, returned, cmds>>

exitEvent ==
    \E p \in 1..Len(procs), code \in ExitCodes, signal \in Signals :
        ExitEvent(p, code, signal)

\* Process p emits 'error': a failed launch reports itself (and the process
\* object is then dead), or a running process reports a runtime error.  The
\* handler of eventsListener runs if it is still registered.
ErrorEvent(p) ==
        /\ procs[p].state \in {"alive", "failed"}
        /\ procs' = [procs EXCEPT ![p].state = IF @ = "failed" THEN "dead" ELSE @]
        /\ IF "error" \in procs[p].own
           THEN /\ status' = StatusAfterError(status)
                /\ exitCode' = ExitCodeAfterError(exitCode)
           ELSE UNCHANGED <<status, exitCode>>
        /\ last' = Step("error")
        /\ UNCHANGED <<pid, startDate, history, childProcess, parameters,
                       callbacks, readInputListeners, outSink, errSink,
                       stdinSink, delivered, now>>
        /\ UNCHANGED <<args, instance, resolvedParameters, dump, returned, cmds>>

errorEvent ==
    \E p \in 1..Len(procs) : ErrorEvent(p)

\* Process p's stdout emits 'data'.
StdoutData(p, d) ==
        /\ procs[p].state \in {"alive", "exited"}
        /\ Len(history) + procs[p].stdoutData <= MaxHist
        /\ outSink' = AppendTimes(outSink, d, procs[p].stdoutData)
        /\ history' = HistoryPushTimes(history, d, now, TypeOUT, procs[p].stdoutData)
        /\ delivered' = Append(delivered, <<TypeOUT, d>>)
        /\ last' = Step("stdout")
        /\ UNCHANGED <<status, pid, exitCode, startDate, childProcess, parameters,
                       procs, callbacks, readInputListeners, errSink, stdinSink, now>>
        /\ UNCHANGED <<args, instance, resolvedParameters, dump, returned, cmds>>

stdoutData ==
    \E p \in 1..Len(procs), d \in Chunks : StdoutData(p, d)

\* Process p's stderr emits 'data'.
StderrData(p, d) ==
        /\ procs[p].state \in {"alive", "exited"}
        /\ Len(history) + procs[p].stderrData <= MaxHist
        /\ errSink' = AppendTimes(errSink, d, procs[p].stderrData)
        /\ history' = HistoryPushTimes(history, d, now, TypeERR, procs[p].stderrData)
        /\ delivered' = Append(delivered, <<TypeERR, d>>)
        /\ last' = Step("stderr")
        /\ UNCHANGED <<status, pid, exitCode, startDate, childProcess, parameters,
                       procs, callbacks, readInputListeners, outSink, stdinSink, now>>
        /\ UNCHANGED <<args, instance, resolvedParameters, dump, returned, cmds>>

stderrData ==
    \E p \in 1..Len(procs), d \in Chunks : StderrData(p, d)

\* streams.readInput emits 'data': every listener a run() has registered
\* writes the chunk to the stdin of the current this.childProcess and pushes
\* it to the history.
ReadInputData(d) ==
        /\ Len(history) + readInputListeners <= MaxHist
        /\ stdinSink' = AppendTimes(stdinSink, d, readInputListeners)
        /\ history' = HistoryPushTimes(history, d, now, TypeIN, readInputListeners)
        /\ delivered' = IF Len(procs) > 0 THEN Append(delivered, <<TypeIN, d>>)
                        ELSE delivered
        /\ last' = Step("input")
        /\ UNCHANGED <<status, pid, exitCode, startDate, childProcess, parameters,
                       procs, callbacks, readInputListeners, outSink, errSink, now>>
        /\ UNCHANGED <<args, instance, resolvedParameters, dump, returned, cmds>>

readInputData ==
    \E d \in Chunks : ReadInputData(d)

\* Time passes.
Tick ==
    /\ now < MaxClock
    /\ now' = now + 1
    /\ last' = Step("tick")
    /\ UNCHANGED <<status, pid, exitCode, startDate, history, childProcess,
                   parameters, procs, callbacks, readInputListeners, outSink,
                   errSink, stdinSink, delivered>>
    /\ UNCHANGED <<args, instance, resolvedParameters, dump, returned, cmds>>

Next ==
    \/ run
    \/ stop
    \/ kill
    \/ setParameters
    \/ onEvent
    \/ removeAllEventListeners
    \/ getHistoryDump
    \/ dumpPush
    \/ isRunning
    \/ exitEvent
    \/ errorEvent
    \/ stdoutData
    \/ stderrData
    \/ readInputData
    \/ Tick

Spec == Init /\ [][Next]_vars

\* The lifecycle alone: the consumer runs, signals, subscribes and
\* unsubscribes, and the processes emit 'exit' and 'error'; no data travels
\* on the streams, the history stays empty and unread, and the parameters
\* stay as constructed.
NextLifecycle ==
    \/ run
    \/ stop
    \/ kill
    \/ onEvent
    \/ removeAllEventListeners
    \/ exitEvent
    \/ errorEvent

SpecLifecycle == Init /\ [][NextLifecycle]_vars

\* The stream bridge: the lifecycle of the processes together with the data
\* events of the three streams; the consumer leaves the listeners, the
\* parameters and the history dump alone.
NextStreams ==
    \/ run
    \/ stop
    \/ kill
    \/ exitEvent
    \/ errorEvent
    \/ stdoutData
    \/ stderrData
    \/ readInputData

SpecStreams == Init /\ [][NextStreams]_vars

\* The history dump: the consumer asks for the dump and changes what it got,
\* while the command runs and data travels on the streams.
NextDump ==
    \/ run
    \/ getHistoryDump
    \/ dumpPush
    \/ stdoutData
    \/ stderrData
    \/ readInputData

SpecDump == Init /\ [][NextDump]_vars

\* The status accessor: the consumer asks isRunning() at any point of the
\* lifecycle.
NextStatus ==
    \/ run
    \/ stop
    \/ kill
    \/ isRunning
    \/ exitEvent
    \/ errorEvent

SpecStatus == Init /\ [][NextStatus]_vars

\* Two supervisors side by side: every method of either instance and every
\* event of either one's processes, in any order.
NextPair ==
    \/ pairRun
    \/ pairStop
    \/ pairKill
    \/ pairSetParameters
    \/ pairRemoveAllEventListeners
    \/ pairExitEvent
    \/ pairErrorEvent
    \/ pairOutputData

SpecPair == Init /\ [][NextPair]_vars

\* The clock: time passes between the runs of the command and the data
\* events of the three streams.
NextClock ==
    \/ run
    \/ stdoutData
    \/ stderrData
    \/ readInputData
    \/ Tick

SpecClock == Init /\ [][NextClock]_vars

\* Construction: the constructor is called with any descriptor and any
\* stream bundle, and an instance that came out of it is run.
NextConstruction ==
    \/ construct
    \/ run
    \/ exitEvent
    \/ errorEvent

SpecConstruction == InitConstruction /\ [][NextConstruction]_vars

\* The parameter lists run() is given to resolve: those of ParameterLists,
\* and every input object of a template and an answer within the bounds.
ParameterInputs ==
    ParameterLists \cup
    {<<InputObject(t, a)>> : t \in Strings(MaxTemplate), a \in Strings(MaxAnswer)}

\* A Command constructed with any of the parameter lists.
InitParameters ==
    /\ Fresh
    /\ args \in {[ValidArgs EXCEPT !.descriptor.parameters = ps] :
                    ps \in ParameterInputs}
    /\ parameters = args.descriptor.parameters
    /\ instance = "Command"
    /\ last = Step("new")

\* The parameters: the command is run, and run again, on the list it has.
NextParameters ==
    \/ run

SpecParameters == InitParameters /\ [][NextParameters]_vars

\* ================================================================ claims
\* The status the exit mapping of the specification gives for (code, signal).
MappedStatus(code, signal) ==
    IF signal = "SIGKILL" THEN KILLED
    ELSE IF signal = "SIGTERM" THEN STOPPED
    ELSE IF code # NullCode /\ code > 0 THEN ERROR
    ELSE FINISHED

\* a is a prefix of b.
IsPrefix(a, b) ==
    /\ Len(a) <= Len(b)
    /\ SubSeq(b, 1, Len(a)) = a

\* The chunks of the events of one type, in the order they were emitted.
RECURSIVE ChunksOf(_, _)
ChunksOf(events, type) ==
    IF events = <<>> THEN <<>>
    ELSE IF Head(events)[1] = type
         THEN <<Head(events)[2]>> \o ChunksOf(Tail(events), type)
         ELSE ChunksOf(Tail(events), type)

\* C1: terminal states are absorbing: once the status is FINISHED, ERROR,
\* STOPPED or KILLED, no operation and no delivered event changes it.
C1_TerminalAbsorbing ==
    [][(status \in Terminal) => (status' = status)]_vars

\* C2: an 'exit' event (code, signal) delivered to the observer of a RUNNING
\* Command sets the status to KILLED for SIGKILL, STOPPED for SIGTERM,
\* otherwise ERROR for a code > 0 and FINISHED for code 0 or no code; the
\* signal wins over the code for every pair.
C2_ExitMapping ==
    [][(/\ last'.op = "exit"
        /\ status = RUNNING
        /\ "exit" \in procs[last'.target].own)
       => status' = MappedStatus(last'.code, last'.signal)]_vars

\* C2 witness: an exit with both a non-zero code and SIGKILL was delivered
\* and the signal decided.
C2_Witness ==
    /\ last.op = "exit"
    /\ status = KILLED
    /\ exitCode = 1

\* C3: a Command starts at most one OS process over its lifetime.
C3_AtMostOneProcess ==
    Cardinality({p \in 1..Len(procs) : procs[p].pid # Undefined}) <= 1

\* C4: whatever listeners the consumer added or removed, an 'exit' emitted
\* by the process of a RUNNING Command drives it out of RUNNING into the
\* status of the exit mapping.
C4_ExitSurvivesListenerRemoval ==
    [][(last'.op = "exit" /\ status = RUNNING)
       => status' = MappedStatus(last'.code, last'.signal)]_vars

\* C5: the history holds exactly one entry per stream event emitted after
\* run(), tagged with its stream and in the order of emission, and every
\* chunk is forwarded exactly once to its counterpart.
C5_StreamBookkeeping ==
    /\ [i \in 1..Len(history) |-> <<history[i].type, history[i].data>>] = delivered
    /\ outSink = ChunksOf(delivered, TypeOUT)
    /\ errSink = ChunksOf(delivered, TypeERR)
    /\ stdinSink = ChunksOf(delivered, TypeIN)

\* C6: the history is append-only: in every step the history before is a
\* prefix of the history after.
C6_HistoryAppendOnly ==
    [][IsPrefix(history, history')]_vars

\* C6 witness: the history holds two entries of different streams, the
\* second appended while the first was there.
C6_Witness ==
    /\ Len(history) = 2
    /\ history[1].type # history[2].type
    /\ last.op \in {"stdout", "stderr", "input"}

C8_SpawnFailure ==
    [][(status = NOT_STARTED /\ Run("throw"))
       => (/\ last'.op = "run:ProcessError"
           /\ status' = NOT_STARTED
           /\ pid' = Undefined
           /\ exitCode' = NullCode
           /\ childProcess' = NoProcess
           /\ procs' = <<>>
           /\ readInputListeners' = 0)]_vars

\* C8 witness: run() has just thrown on a Command that was never started.
C8_Witness ==
    /\ last.op = "run:ProcessError"
    /\ status = NOT_STARTED
    /\ startDate # Undefined

\* C9: an 'error' event delivered to the observer after run() sets the
\* status to STOPPED and leaves exitCode, pid and history as they were.
C9_RuntimeError ==
    [][\A p \in 1..Len(procs) :
          (last'.op = "error" /\ "error" \in procs[p].own /\ ErrorEvent(p))
          => (/\ status' = STOPPED
              /\ exitCode' = exitCode
              /\ pid' = pid
              /\ history' = history)]_vars

\* C9 witness: an error was just delivered to a started Command that has a
\* pid and a non-empty history.
C9_Witness ==
    /\ last.op = "error"
    /\ status = STOPPED
    /\ pid # Undefined
    /\ exitCode = NullCode
    /\ Len(history) > 0

\* C10: stop() and kill() leave status, exitCode, pid, startDate and history
\* as they were when they return; on a Command whose process runs they send
\* SIGTERM (stop) or SIGKILL (kill) to that process and nothing else.
C10_SignalsAreRequests ==
    [][(stop \/ kill)
       => (/\ UNCHANGED <<status, exitCode, pid, startDate, history>>
           /\ \A op \in {"stop", "kill"} :
                 (/\ last'.op = op
                  /\ childProcess # NoProcess
                  /\ procs[childProcess].state = "alive")
                 => (/\ last'.target = childProcess
                     /\ last'.signal = IF op = "stop" THEN "SIGTERM" ELSE "SIGKILL")
           /\ last'.signal \in {NoSignal, "SIGTERM", "SIGKILL"})]_vars

\* C10 witness: stop() has just signalled the running process of a RUNNING
\* Command with a history, and the status is still RUNNING.
C10_Witness ==
    /\ last.op = "stop"
    /\ last.signal = "SIGTERM"
    /\ last.target = childProcess
    /\ status = RUNNING
    /\ Len(history) > 0

\* C11: construction validation: once the constructor has been called with
\* a descriptor that fails its schema or with a stream bundle that fails its
\* schema (an absent bundle included), the call has failed with a
\* ValidationError, there is no instance, and no process has been spawned.
C11_ConstructionValidation ==
    (/\ instance # "none"
     /\ \/ ~commandDescriptorSchema(args.descriptor)
        \/ ~runCommandArgsSchema(args.streams))
    => (instance = "ValidationError" /\ procs = <<>>)

\* The positions of the unescaped markers of a template: every `$` that is
\* the first character or follows a character other than the backslash.
Unescaped(t) ==
    {i \in 1..Len(t) : t[i] = "$" /\ (i = 1 \/ t[i - 1] # "\\")}

\* The template holds a `$`, and every `$` it holds is escaped.
OnlyEscaped(t) ==
    /\ \E i \in 1..Len(t) : t[i] = "$"
    /\ Unescaped(t) = {}

\* The last step was a run(): resolvedParameters is what it resolved the
\* current parameters to.
JustResolved == last.op \in {"run", "run:ProcessError"}

\* C12 as claimed: an escaped marker is never substituted: an input object
\* whose template holds `$` only in escaped form resolves to the template
\* unchanged, whatever the answer.
C12_EscapedKeepsTemplate ==
    JustResolved =>
        \A k \in 1..Len(parameters) :
            (parameters[k].object /\ OnlyEscaped(parameters[k].parameter))
            => resolvedParameters[k] = parameters[k].parameter

\* C12 amended: an escaped marker is never a place of substitution: an input
\* object whose template holds `$` only in escaped form has no match and
\* resolves to the answer alone, the template being dropped.
C12_EscapedYieldsAnswer ==
    JustResolved =>
        \A k \in 1..Len(parameters) :
            (parameters[k].object /\ OnlyEscaped(parameters[k].parameter))
            => resolvedParameters[k] = parameters[k].answer

\* A run() has resolved a template with an escaped marker only, and a
\* non-empty answer that differs from it, to the answer.
C12_Witness ==
    /\ last.op = "run"
    /\ \E k \in 1..Len(parameters) :
        /\ parameters[k].object
        /\ OnlyEscaped(parameters[k].parameter)
        /\ Len(parameters[k].parameter) = 3
        /\ parameters[k].answer \notin {<<>>, parameters[k].parameter}
        /\ resolvedParameters[k] = parameters[k].answer

\* C13: single substitution: the resolved vector has the length and the
\* order of the parameter list, literals stand as they are, and an input
\* object whose template holds an unescaped `$` resolves to the template with
\* exactly the first unescaped `$` replaced by the answer, character for
\* character, whatever the answer holds.
C13_SingleVerbatimSubstitution ==
    JustResolved =>
        /\ Len(resolvedParameters) = Len(parameters)
        /\ \A k \in 1..Len(parameters) :
            LET t == parameters[k].parameter
                i == CHOOSE m \in Unescaped(t) : \A j \in Unescaped(t) : m <= j
            IN  /\ ~parameters[k].object => resolvedParameters[k] = t
                /\ (parameters[k].object /\ Unescaped(t) # {})
                   => resolvedParameters[k] =
                        SubSeq(t, 1, i - 1) \o parameters[k].answer
                        \o SubSeq(t, i + 1, Len(t))

\* C14: every history entry is timestamped no earlier than startDate: each
\* entry's date is at least the current startDate, whatever runs and stream
\* events came before, and startDate is the clock value at which run() was
\* called (undefined until then).
C14_HistoryAfterStart ==
    /\ \A i \in 1..Len(history) : history[i].date >= startDate
    /\ JustResolved => startDate = now
    /\ last.op = "new" => startDate = Undefined

\* C15: exitCode is set only by process exit: it is null after construction,
\* the only steps that change it are 'exit' events delivered to the
\* Command's observer (run, stop, kill, 'error' events and stream data
\* never set it), and right after such an 'exit' event (code, signal) it is
\* the reported code, null included.
C15_ExitCodeOnlyByExit ==
    /\ exitCode = NullCode
    /\ [][LET exitDelivered ==
                  last'.op = "exit" /\ "exit" \in procs[last'.target].own
           IN  /\ exitCode' # exitCode => exitDelivered
               /\ exitDelivered => exitCode' = last'.code]_vars

\* Data has arrived and an 'error' event has been handled while no process
\* has exited, and the exit code is still null.
C15_Witness ==
    /\ last.op = "error"
    /\ Len(history) > 0
    /\ status = STOPPED
    /\ \E p \in 1..Len(procs) : procs[p].state = "alive"
    /\ \A p \in 1..Len(procs) : procs[p].state # "exited"
    /\ exitCode = NullCode

\* C18: the history dump is a read-only snapshot: an array getHistoryDump()
\* returned holds what the consumer last saw in it (the history at the call),
\* whatever stream events came later, and a change the consumer makes to it
\* leaves the Command's history as it was.
C18_DumpIsSnapshot ==
    /\ [](dump.taken => DumpContents = dump.seen)
    /\ [][last'.op = "dump.push" => history' = history]_vars

\* C19: isRunning() returns true exactly when the status is RUNNING, and
\* false in each of NOT_STARTED, FINISHED, ERROR, STOPPED and KILLED.
C19_IsRunningIffRunning ==
    last.op = "isRunning" =>
        /\ status = RUNNING => returned = TRUE
        /\ status \in {NOT_STARTED, FINISHED, ERROR, STOPPED, KILLED}
           => returned = FALSE

\* isRunning() has answered false to a command that ran and was killed.
C19_Witness ==
    /\ last.op = "isRunning"
    /\ status = KILLED
    /\ returned = FALSE
    /\ pid # Undefined

\* C17: pid is undefined until run() succeeds and is recorded on spawn
\* success: while the status is NOT_STARTED pid is undefined, and while the
\* status is RUNNING pid is defined, also when the launch failure is only
\* reported later by an 'error' event.
C17_PidFollowsStatus ==
    /\ status = NOT_STARTED => pid = Undefined
    /\ status = RUNNING => pid # Undefined

\* C20: status and exit code are consistent under every interleaving of
\* run, stop, kill, 'exit' and 'error' events: ERROR implies a numeric exit
\* code greater than 0, FINISHED implies an exit code of null or 0,
\* NOT_STARTED and RUNNING imply a null exit code.
C20_StatusExitCodeConsistent ==
    /\ status = ERROR => (exitCode # NullCode /\ exitCode > 0)
    /\ status = FINISHED => exitCode \in {NullCode, 0}
    /\ status \in {NOT_STARTED, RUNNING} => exitCode = NullCode

\* C16: supervisors are independent: a step of one Command (run, stop,
\* kill, setParameters, removeAllEventListeners, or an 'exit', 'error' or
\* output event of one of its processes) leaves the status, exitCode, pid and
\* history of the other Command as they were, in every interleaving.
C16_SupervisorsIndependent ==
    [][(last'.target \in Instances)
       => LET other == Other(last'.target)
          IN  /\ cmds'[other].status = cmds[other].status
              /\ cmds'[other].exitCode = cmds[other].exitCode
              /\ cmds'[other].pid = cmds[other].pid
              /\ cmds'[other].history = cmds[other].history]_vars

\* Both Commands were running; the process of the first has been killed and
\* the second is still running, with the output it logged.
C16_Witness ==
    /\ last.target = 1
    /\ cmds[1].status = KILLED
    /\ cmds[1].exitCode = NullCode
    /\ cmds[2].status = RUNNING
    /\ cmds[2].pid \notin {Undefined, cmds[1].pid}
    /\ Len(cmds[2].history) > 0
====
